---- MODULE Spec2Model ----
(***************************************************************************)
(* Model of PasswordStrengthChecker.py: the entropy estimate, the common   *)
(* password lookup, the policy evaluation of main() option 1 and the       *)
(* generator ctf_secure_generator() of option 2.                           *)
(*                                                                         *)
(* A string is a sequence of one-character strings.  Entropy values are    *)
(* fixed-point numbers in micro-bits (bits * 10^6).                        *)
(***************************************************************************)
EXTENDS Integers, Sequences, FiniteSets, TLC

VARIABLES
    pc,                 \* the position of the program
    choice,             \* main: the menu option entered
    password,           \* main: the password typed at the hidden prompt
    corpus,             \* common_passwords.txt as open() finds it
    entropy,            \* main: calculate_entropy(password)
    is_common,          \* main: the result of check_common_password
    warning,            \* the message check_common_password printed
    has_upper, has_digit, has_special,
    policy_violation,
    violation_reasons,
    rating,             \* the rating printed after a passing verdict
    output,             \* what main reported: the verdict or an error
    password_chars,     \* ctf_secure_generator: the list being built
    remaining_length,
    additional_length,
    loop_i,             \* iterations done by the running for loop
    secure_password,
    report              \* the compliance lines the generator prints

vars == <<pc, choice, password, corpus, entropy, is_common, warning,
          has_upper, has_digit, has_special, policy_violation,
          violation_reasons, rating, output,
          password_chars, remaining_length, additional_length, loop_i,
          secure_password, report>>

checkVars == <<password, corpus, entropy, is_common, warning, has_upper,
               has_digit, has_special, policy_violation, violation_reasons,
               rating>>

genVars == <<password_chars, remaining_length, additional_length, loop_i,
            secure_password, report>>

(***************************************************************************)
(* Bounds of the explored inputs.                                          *)
(***************************************************************************)
MaxHead == 3
MaxTail == 7
MaxLines == 2

(***************************************************************************)
(* The alphabets of the string module, in their order.                     *)
(***************************************************************************)
ascii_lowercase ==
    <<"a","b","c","d","e","f","g","h","i","j","k","l","m",
      "n","o","p","q","r","s","t","u","v","w","x","y","z">>

ascii_uppercase ==
    <<"A","B","C","D","E","F","G","H","I","J","K","L","M",
      "N","O","P","Q","R","S","T","U","V","W","X","Y","Z">>

digits == <<"0","1","2","3","4","5","6","7","8","9">>

punctuation ==
    <<"!","\"","#","$","%","&","'","(",")","*","+",",","-",".","/",":",
      ";","<","=",">","?","@","[","\\","]","^","_","grave","{","|","}","~">>

\* (The grave accent, which a TLA+ string cannot hold, is written "grave".)

\* Characters removed by str.strip() (ASCII whitespace).
whitespace == {" ", "\t", "\n", "\r", "\f"}

Range(s) == {s[i] : i \in 1..Len(s)}

\* The characters of each alphabet, for the tests "c in alphabet".
LowerLetters == Range(ascii_lowercase)
UpperLetters == Range(ascii_uppercase)
DigitChars == Range(digits)
SpecialChars == Range(punctuation)

\* any(c in alphabet for c in s)
AnyIn(s, alphabet) == \E i \in 1..Len(s) : s[i] \in alphabet

(***************************************************************************)
(* math.log2 on the alphabet sizes the program can form, in micro-bits     *)
(* (rounded down; log2(32) = 5 is exact).                                  *)
(***************************************************************************)
log2 ==
    [n \in {10, 26, 32, 36, 42, 52, 58, 62, 68, 84, 94} |->
        CASE n = 10 -> 3321928
          [] n = 26 -> 4700439
          [] n = 32 -> 5000000
          [] n = 36 -> 5169925
          [] n = 42 -> 5392317
          [] n = 52 -> 5700439
          [] n = 58 -> 5857980
          [] n = 62 -> 5954196
          [] n = 68 -> 6087462
          [] n = 84 -> 6392317
          [] n = 94 -> 6554588]

\* n bits in the fixed-point representation.
Bits(n) == n * 1000000

\* Variant of CharSpace that leaves the special characters out of N.
CharSpace_NoSpecial(pw) ==
    (IF AnyIn(pw, LowerLetters) THEN 26 ELSE 0)
  + (IF AnyIn(pw, UpperLetters) THEN 26 ELSE 0)
  + (IF AnyIn(pw, DigitChars) THEN 10 ELSE 0)

\* The character-space size N of calculate_entropy.
CharSpace(pw) ==
    (IF AnyIn(pw, LowerLetters) THEN 26 ELSE 0)
  + (IF AnyIn(pw, UpperLetters) THEN 26 ELSE 0)
  + (IF AnyIn(pw, DigitChars) THEN 10 ELSE 0)
  + (IF AnyIn(pw, SpecialChars) THEN 32 ELSE 0)

\* Variant of calculate_entropy that counts one character too few.
calculate_entropy_OffByOne(pw) ==
    IF pw = <<>> THEN 0
    ELSE LET L == Len(pw) - 1
             N == CharSpace(pw)
         IN  IF N = 0 THEN 0 ELSE L * log2[N]

calculate_entropy(pw) ==
    IF pw = <<>> THEN 0
    ELSE LET L == Len(pw)
             N == CharSpace(pw)
         IN  IF N = 0 THEN 0 ELSE L * log2[N]

\* f"{entropy:.2f}": the value in hundredths of a bit.
Format2f(e) == (e + 5000) \div 10000

(***************************************************************************)
(* check_common_password                                                   *)
(***************************************************************************)
RECURSIVE lstrip(_)
lstrip(s) ==
    IF s # <<>> /\ Head(s) \in whitespace THEN lstrip(Tail(s)) ELSE s

RECURSIVE rstrip(_)
rstrip(s) ==
    IF s # <<>> /\ s[Len(s)] \in whitespace
    THEN rstrip(SubSeq(s, 1, Len(s) - 1)) ELSE s

\* Variant of strip that removes trailing whitespace only.
strip_RightOnly(line) == rstrip(line)

\* line.strip()
strip(line) == rstrip(lstrip(line))

\* The file common_passwords.txt: missing, refused at open, or a sequence
\* of lines of which line badLine (0: none) cannot be decoded.
NoError == "none"
NotFoundWarning == "Warning: Common passwords file not found."
ReadError == "Error reading common passwords file"

\* The scan of the lines from line i on: a result and the message printed.
RECURSIVE ScanLines(_, _, _)
ScanLines(pw, file, i) ==
    IF i > Len(file.lines) THEN [found |-> FALSE, printed |-> NoError]
    ELSE IF file.badLine = i THEN [found |-> FALSE, printed |-> ReadError]
    ELSE IF strip(file.lines[i]) = pw THEN [found |-> TRUE, printed |-> NoError]
    ELSE ScanLines(pw, file, i + 1)

\* Variant of check_common_password that reports a match when the file
\* cannot be opened.
check_common_password_FailClosed(pw, file) ==
    CASE file.status = "missing" -> [found |-> FALSE, printed |-> NotFoundWarning]
      [] file.status = "denied"  -> [found |-> TRUE, printed |-> ReadError]
      [] OTHER                   -> ScanLines(pw, file, 1)

check_common_password(pw, file) ==
    CASE file.status = "missing" -> [found |-> FALSE, printed |-> NotFoundWarning]
      [] file.status = "denied"  -> [found |-> FALSE, printed |-> ReadError]
      [] OTHER                   -> ScanLines(pw, file, 1)

(***************************************************************************)
(* get_strength_rating                                                     *)
(***************************************************************************)
get_strength_rating(e) ==
    IF e < Bits(40) THEN "Very Weak"
    ELSE IF e < Bits(60) THEN "Medium"
    ELSE "Strong"

(***************************************************************************)
(* The policy checks of main, one per if statement: each maps the verdict  *)
(* so far to the verdict after the statement.                              *)
(***************************************************************************)
CommonReason == <<"Password found in common passwords list">>
EntropyReason(e) ==
    <<"Entropy (", Format2f(e), " bits) is below minimum threshold (40 bits)">>
UpperReason == <<"Missing required Uppercase letter">>
DigitReason == <<"Missing required Number (Digit)">>
SpecialReason == <<"Missing required Special Character">>

NoViolation == [policy_violation |-> FALSE, violation_reasons |-> <<>>]

\* Variant of Violation that records the reason without raising the flag.
Violation_FlagUnset(v, reason) ==
    [policy_violation |-> v.policy_violation,
     violation_reasons |-> Append(v.violation_reasons, reason)]

Violation(v, reason) ==
    [policy_violation |-> TRUE,
     violation_reasons |-> Append(v.violation_reasons, reason)]

IfCommon(v, common) == IF common THEN Violation(v, CommonReason) ELSE v

\* Variant of IfLowEntropy with a threshold of 30 bits.
IfLowEntropy_Below30(v, e) ==
    IF e < Bits(30) THEN Violation(v, EntropyReason(e)) ELSE v

IfLowEntropy(v, e) == IF e < Bits(40) THEN Violation(v, EntropyReason(e)) ELSE v

IfNoUpper(v, upper) == IF ~upper THEN Violation(v, UpperReason) ELSE v

\* Variant of IfNoDigit that is skipped once a violation is known.
IfNoDigit_ShortCircuit(v, digit) ==
    IF ~digit /\ ~v.policy_violation THEN Violation(v, DigitReason) ELSE v

IfNoDigit(v, digit) == IF ~digit THEN Violation(v, DigitReason) ELSE v

IfNoSpecial(v, special) == IF ~special THEN Violation(v, SpecialReason) ELSE v

\* The verdict main reaches for a non-empty password and a corpus file.
Evaluate(pw, file) ==
    IfNoSpecial(
      IfNoDigit(
        IfNoUpper(
          IfLowEntropy(
            IfCommon(NoViolation, check_common_password(pw, file).found),
            calculate_entropy(pw)),
          AnyIn(pw, UpperLetters)),
        AnyIn(pw, DigitChars)),
      AnyIn(pw, SpecialChars))

(***************************************************************************)
(* The inputs explored.                                                    *)
(***************************************************************************)
SeqsUpTo(S, n) == UNION {[1..k -> S] : k \in 0..n}

Repeat(c, k) == [i \in 1..k |-> c]

TypedChars == {"a", "Q", "7", "#", " "}
TailChars == {"a", "Q"}

Scenario2 == <<"P","@","s","s","w","0","r","d","1","2","3">>
password123 == <<"p","a","s","s","w","o","r","d","1","2","3">>
Password123 == <<"P","a","s","s","w","o","r","d","1","2","3">>

\* The sequences of pairwise different elements of S, of length n.
Distinct(S, n) ==
    {s \in [1..n -> S] : \A i, j \in 1..n : i # j => s[i] # s[j]}

\* The passwords typed: every string of at most MaxHead typed characters,
\* the strings of MaxHead different characters extended by up to MaxTail
\* copies of one character, and the passwords of the documented scenarios.
Passwords ==
    SeqsUpTo(TypedChars, MaxHead)
    \cup {h \o Repeat(c, k) : h \in Distinct(TypedChars, MaxHead),
                              c \in TailChars, k \in 1..MaxTail}
    \cup {Scenario2, password123, Password123}

\* The lines a corpus file is made of.
CorpusLines ==
    {password123 \o <<"\n">>,
     Scenario2 \o <<"\n">>,
     <<" ", "a", "\t", "\n">>}

Unopened == [status |-> "unopened", lines |-> <<>>, badLine |-> 0]
MissingFile == [status |-> "missing", lines |-> <<>>, badLine |-> 0]
DeniedFile == [status |-> "denied", lines |-> <<>>, badLine |-> 0]

Files ==
    {MissingFile, DeniedFile}
    \cup UNION {{[status |-> "ok", lines |-> ls, badLine |-> b] :
                    b \in 0..Len(ls)} :
                 ls \in UNION {Distinct(CorpusLines, k) : k \in 0..MaxLines}}

\* The menu entries typed at input().
MenuInputs == {<<"1">>, <<" ", "1", " ">>, <<"2">>, <<"3">>, <<"4">>, <<>>}

(***************************************************************************)
(* The random module.  The draws explored are the first and the middle     *)
(* index of the range; randint explores its whole range.                   *)
(***************************************************************************)
RandBelow(n) == {0, n \div 2}

\* random.choice(seq): the characters it can return.
Choice(seq) == {seq[j + 1] : j \in RandBelow(Len(seq))}

RandInt(a, b) == a..b

Swap(x, i, j) == [x EXCEPT ![i] = x[j], ![j] = x[i]]

\* The index drawn by randbelow(m) under a shuffle's draw rule.
Draw(rule, m) ==
    CASE rule = "first"  -> 0
      [] rule = "middle" -> m \div 2
      [] rule = "last"   -> m - 1

ShuffleRules == {"first", "middle", "last"}

\* random.shuffle(x): for i = len(x)-1 down to 1, swap x[i] with x[j],
\* j = randbelow(i + 1).  ShuffleFrom runs the loop from (0-based) index i.
RECURSIVE ShuffleFrom(_, _, _)
ShuffleFrom(x, i, rule) ==
    IF i < 1 THEN x
    ELSE ShuffleFrom(Swap(x, i + 1, Draw(rule, i + 1) + 1), i - 1, rule)

Shuffle(x, rule) == ShuffleFrom(x, Len(x) - 1, rule)

(***************************************************************************)
(* ctf_secure_generator                                                    *)
(***************************************************************************)
min_length == 10

all_chars == ascii_uppercase \o ascii_lowercase \o digits \o punctuation

\* Variant of Max that returns the smaller argument.
Max_Smaller(a, b) == IF a >= b THEN b ELSE a

Max(a, b) == IF a >= b THEN a ELSE b

\* The checks the generator prints for the password it made.
Compliance(pw) ==
    [has_min_length |-> Len(pw) >= min_length,
     has_upper      |-> AnyIn(pw, UpperLetters),
     has_digit      |-> AnyIn(pw, DigitChars),
     has_special    |-> AnyIn(pw, SpecialChars),
     length         |-> Len(pw),
     entropy        |-> calculate_entropy(pw),
     entropy_ok     |-> calculate_entropy(pw) >= Bits(40)]

SeedUpper ==
    /\ pc = "gen_upper"
    /\ \E c \in Choice(ascii_uppercase) : password_chars' = <<c>>
    /\ pc' = "gen_digit"
    /\ UNCHANGED <<choice, checkVars, output, remaining_length,
                   additional_length, loop_i, secure_password, report>>

\* Variant of SeedDigit that draws the second character from all classes.
SeedDigit_AnyChar ==
    /\ pc = "gen_digit"
    /\ \E c \in Choice(all_chars) : password_chars' = Append(password_chars, c)
    /\ pc' = "gen_special"
    /\ UNCHANGED <<choice, checkVars, output, remaining_length,
                   additional_length, loop_i, secure_password, report>>

SeedDigit ==
    /\ pc = "gen_digit"
    /\ \E c \in Choice(digits) : password_chars' = Append(password_chars, c)
    /\ pc' = "gen_special"
    /\ UNCHANGED <<choice, checkVars, output, remaining_length,
                   additional_length, loop_i, secure_password, report>>

SeedSpecial ==
    /\ pc = "gen_special"
    /\ \E c \in Choice(punctuation) : password_chars' = Append(password_chars, c)
    /\ remaining_length' = Max(0, min_length - (Len(password_chars) + 1))
    /\ loop_i' = 0
    /\ pc' = "gen_pad"
    /\ UNCHANGED <<choice, checkVars, output, additional_length,
                   secure_password, report>>

Pad ==
    /\ pc = "gen_pad"
    /\ loop_i < remaining_length
    /\ \E c \in Choice(all_chars) : password_chars' = Append(password_chars, c)
    /\ loop_i' = loop_i + 1
    /\ UNCHANGED <<pc, choice, checkVars, output, remaining_length,
                   additional_length, secure_password, report>>

ChooseAdditional ==
    /\ pc = "gen_pad"
    /\ loop_i >= remaining_length
    /\ additional_length' \in RandInt(2, 6)
    /\ loop_i' = 0
    /\ pc' = "gen_extra"
    /\ UNCHANGED <<choice, checkVars, output, password_chars,
                   remaining_length, secure_password, report>>

Extra ==
    /\ pc = "gen_extra"
    /\ loop_i < additional_length
    /\ \E c \in Choice(all_chars) : password_chars' = Append(password_chars, c)
    /\ loop_i' = loop_i + 1
    /\ UNCHANGED <<pc, choice, checkVars, output, remaining_length,
                   additional_length, secure_password, report>>

\* random.shuffle, the join, the verification and the printed report.
ShuffleAndReport ==
    /\ pc = "gen_extra"
    /\ loop_i >= additional_length
    /\ \E rule \in ShuffleRules :
          /\ password_chars' = Shuffle(password_chars, rule)
          /\ secure_password' = password_chars'
          /\ report' = Compliance(secure_password')
    /\ pc' = "done"
    /\ UNCHANGED <<choice, checkVars, output, remaining_length,
                   additional_length, loop_i>>

(***************************************************************************)
(* main                                                                    *)
(***************************************************************************)
NoPasswordError == "Error: No password entered."
PolicyViolationBanner == "POLICY VIOLATION"
PassedBanner == "Password Policy Compliance: PASSED"
ExitMessage == "Exiting. Stay secure!"
InvalidOption == "Invalid option. Please run the program again."
GeneratedBanner == "CTF SOLUTION: Secure Password Generated"

Init ==
    /\ pc = "menu"
    /\ choice = <<>>
    /\ password = <<>>
    /\ corpus = Unopened
    /\ entropy = 0
    /\ is_common = FALSE
    /\ warning = NoError
    /\ has_upper = FALSE
    /\ has_digit = FALSE
    /\ has_special = FALSE
    /\ policy_violation = FALSE
    /\ violation_reasons = <<>>
    /\ rating = "none"
    /\ output = "none"
    /\ password_chars = <<>>
    /\ remaining_length = 0
    /\ additional_length = 0
    /\ loop_i = 0
    /\ secure_password = <<>>
    /\ report = Compliance(<<>>)

\* choice = input(...).strip() and the dispatch on it.
Menu(typed) ==
    /\ pc = "menu"
    /\ choice' = strip(typed)
    /\ CASE choice' = <<"1">> -> pc' = "prompt" /\ output' = output
         [] choice' = <<"2">> -> pc' = "gen_upper" /\ output' = GeneratedBanner
         [] choice' = <<"3">> -> pc' = "done" /\ output' = ExitMessage
         [] OTHER             -> pc' = "done" /\ output' = InvalidOption
    /\ UNCHANGED <<checkVars, genVars>>

\* Variant of GetPassword that analyses the empty password too.
GetPassword_NoEmptyCheck ==
    /\ pc = "prompt"
    /\ \E pw \in Passwords : password' = pw
    /\ pc' = "analyse"
    /\ UNCHANGED <<choice, corpus, entropy, is_common, warning, has_upper,
                   has_digit, has_special, policy_violation,
                   violation_reasons, rating, output, genVars>>

\* getpass.getpass(...) and the rejection of an empty password.
GetPassword ==
    /\ pc = "prompt"
    /\ \E pw \in Passwords :
          /\ password' = pw
          /\ IF pw = <<>>
             THEN pc' = "done" /\ output' = NoPasswordError
             ELSE pc' = "analyse" /\ output' = output
    /\ UNCHANGED <<choice, corpus, entropy, is_common, warning, has_upper,
                   has_digit, has_special, policy_violation,
                   violation_reasons, rating, genVars>>

\* The entropy, the corpus lookup, the three mandatory-class flags and the
\* empty verdict.
Analyse ==
    /\ pc = "analyse"
    /\ entropy' = calculate_entropy(password)
    /\ \E file \in Files :
          /\ corpus' = file
          /\ is_common' = check_common_password(password, file).found
          /\ warning' = check_common_password(password, file).printed
    /\ has_upper' = AnyIn(password, UpperLetters)
    /\ has_digit' = AnyIn(password, DigitChars)
    /\ has_special' = AnyIn(password, SpecialChars)
    /\ policy_violation' = NoViolation.policy_violation
    /\ violation_reasons' = NoViolation.violation_reasons
    /\ pc' = "if_common"
    /\ UNCHANGED <<choice, password, rating, output, genVars>>

Verdict ==
    [policy_violation |-> policy_violation,
     violation_reasons |-> violation_reasons]

\* One if statement of the policy check: from position here to position next.
PolicyStep(here, next, v) ==
    /\ pc = here
    /\ policy_violation' = v.policy_violation
    /\ violation_reasons' = v.violation_reasons
    /\ pc' = next
    /\ UNCHANGED <<choice, password, corpus, entropy, is_common, warning,
                   has_upper, has_digit, has_special, rating, output, genVars>>

CheckCommon == PolicyStep("if_common", "if_entropy", IfCommon(Verdict, is_common))

CheckEntropy == PolicyStep("if_entropy", "if_upper", IfLowEntropy(Verdict, entropy))

CheckUpper == PolicyStep("if_upper", "if_digit", IfNoUpper(Verdict, has_upper))

CheckDigit == PolicyStep("if_digit", "if_special", IfNoDigit(Verdict, has_digit))

CheckSpecial == PolicyStep("if_special", "decide", IfNoSpecial(Verdict, has_special))

\* if policy_violation: refuse and return; else report the pass.
Refuse ==
    /\ pc = "decide"
    /\ policy_violation
    /\ output' = PolicyViolationBanner
    /\ pc' = "done"
    /\ UNCHANGED <<choice, checkVars, genVars>>

Accept ==
    /\ pc = "decide"
    /\ ~policy_violation
    /\ output' = PassedBanner
    /\ rating' = get_strength_rating(entropy)
    /\ pc' = "done"
    /\ UNCHANGED <<choice, password, corpus, entropy, is_common, warning,
                   has_upper, has_digit, has_special, policy_violation,
                   violation_reasons, genVars>>

\* main run on the options 1, 3 and the invalid ones.
Next ==
    \/ \E typed \in MenuInputs \ {<<"2">>} : Menu(typed)
    \/ GetPassword
    \/ Analyse
    \/ CheckCommon
    \/ CheckEntropy
    \/ CheckUpper
    \/ CheckDigit
    \/ CheckSpecial
    \/ Refuse
    \/ Accept

Spec == Init /\ [][Next]_vars

\* main run on option 2.
GenNext ==
    \/ Menu(<<"2">>)
    \/ SeedUpper
    \/ SeedDigit
    \/ SeedSpecial
    \/ Pad
    \/ ChooseAdditional
    \/ Extra
    \/ ShuffleAndReport

GenSpec == Init /\ [][GenNext]_vars

(***************************************************************************)
(* Properties                                                              *)
(***************************************************************************)
Generated == choice = <<"2">> /\ pc = "done"

EmptyCorpus == [status |-> "ok", lines |-> <<>>, badLine |-> 0]

Contains(s, set) == \E i \in 1..Len(s) : s[i] \in set

\* C1: every password the generator returns has length >= 10, holds an
\* uppercase letter, a digit and a punctuation character, has an entropy
\* estimate of at least 40 bits, and the policy evaluation of option 1 with
\* an empty corpus gives it no violation reason.
C1_GeneratedPasses ==
    Generated =>
        /\ Len(secure_password) >= 10
        /\ Contains(secure_password, UpperLetters)
        /\ Contains(secure_password, DigitChars)
        /\ Contains(secure_password, SpecialChars)
        /\ calculate_entropy(secure_password) >= Bits(40)
        /\ Evaluate(secure_password, EmptyCorpus).violation_reasons = <<>>
        /\ ~Evaluate(secure_password, EmptyCorpus).policy_violation

\* The shortest output with the smallest character space (no lowercase).
C1_Witness ==
    /\ Generated
    /\ Len(secure_password) = 12
    /\ ~Contains(secure_password, LowerLetters)

Padded == pc = "gen_pad" /\ loop_i >= remaining_length

\* C9 as stated: at the minimum length (three seeds and 7 padding
\* characters, before the extra ones) the worst composition the generator
\* makes, the one of the three mandatory classes only, has an entropy
\* estimate below 40 bits.  (The estimate grows with the character space,
\* so some composition is below 40 exactly when this one is.)
C9_Original ==
    (Padded /\ ~Contains(password_chars, LowerLetters)) =>
        calculate_entropy(password_chars) < Bits(40)

\* C9 amended: the minimum length alone guarantees the entropy: once the
\* padding is complete the list has exactly 10 characters and its entropy
\* estimate is at least 10 * log2(68) > 60 bits, before any extra character
\* is appended.
C9_MinLengthSuffices ==
    Padded =>
        /\ Len(password_chars) = 10
        /\ calculate_entropy(password_chars) >= 10 * log2[68]
        /\ calculate_entropy(password_chars) >= Bits(40)

C9_Witness ==
    /\ Padded
    /\ ~Contains(password_chars, LowerLetters)
    /\ calculate_entropy(password_chars) = 10 * log2[68]

\* The verdict of option 1 has been reached (decided or already printed).
Evaluated ==
    \/ pc = "decide"
    \/ pc = "done" /\ output \in {PolicyViolationBanner, PassedBanner}

\* The five checks in their priority order, each with the reason it adds.
PolicyChecks ==
    << [fails |-> is_common, reason |-> CommonReason],
       [fails |-> calculate_entropy(password) < Bits(40),
        reason |-> EntropyReason(calculate_entropy(password))],
       [fails |-> ~Contains(password, UpperLetters), reason |-> UpperReason],
       [fails |-> ~Contains(password, DigitChars), reason |-> DigitReason],
       [fails |-> ~Contains(password, SpecialChars), reason |-> SpecialReason] >>

FailsCheck(c) == c.fails

FailedChecks == SelectSeq(PolicyChecks, FailsCheck)

\* C2: the evaluation never short-circuits: the reasons list holds exactly
\* one reason for each failing check among common password, entropy < 40,
\* missing uppercase, missing digit, missing special, none for a passing
\* check, in that order; a missing lowercase letter adds no reason.
C2_AllReasonsInOrder ==
    Evaluated =>
        violation_reasons = [i \in 1..Len(FailedChecks) |-> FailedChecks[i].reason]

\* A common password that also fails the entropy check and all class checks.
C2_Witness ==
    /\ pc = "decide"
    /\ is_common
    /\ Len(violation_reasons) = 5

EmptyEntered == pc = "done" /\ choice = <<"1">> /\ password = <<>>

\* C3 as stated: the empty password gets a failing verdict whose reasons
\* include the entropy deficiency and the three missing classes, and no
\* common-password reason.
C3_Original ==
    EmptyEntered =>
        /\ output = PolicyViolationBanner
        /\ policy_violation
        /\ EntropyReason(0) \in Range(violation_reasons)
        /\ UpperReason \in Range(violation_reasons)
        /\ DigitReason \in Range(violation_reasons)
        /\ SpecialReason \in Range(violation_reasons)
        /\ CommonReason \notin Range(violation_reasons)

\* C3 amended: for the empty password main prints "Error: No password
\* entered." and returns before the analysis: the corpus is not opened, no
\* verdict is given and the reasons list holds no reason (in particular no
\* common-password reason); the password is not accepted.
C3_EmptyRejectedUnevaluated ==
    EmptyEntered =>
        /\ output = NoPasswordError
        /\ corpus = Unopened
        /\ ~policy_violation
        /\ violation_reasons = <<>>
        /\ rating = "none"

C3_Witness == EmptyEntered /\ output = NoPasswordError

\* C4: the verdict is failed (policy_violation) exactly when the reasons
\* list is non-empty, at the decision and everywhere before and after it;
\* a passing verdict has an empty reasons list.
C4_ViolationIffReasons ==
    /\ policy_violation <=> (violation_reasons # <<>>)
    /\ (pc = "decide" /\ ~policy_violation) => violation_reasons = <<>>
    /\ output = PassedBanner => violation_reasons = <<>>
    /\ output = PolicyViolationBanner => violation_reasons # <<>>

C4_Witness ==
    /\ pc = "decide"
    /\ policy_violation
    /\ Len(violation_reasons) = 1

\* line is pw surrounded by whitespace only, pw having none at its ends.
IsTrimmedTo(line, pw) ==
    \E i \in 0..Len(line) :
        /\ i + Len(pw) <= Len(line)
        /\ \A k \in 1..i : line[k] \in whitespace
        /\ \A k \in 1..Len(pw) : line[i + k] = pw[k]
        /\ \A k \in (i + Len(pw) + 1)..Len(line) : line[k] \in whitespace
        /\ pw # <<>> => (pw[1] \notin whitespace /\ pw[Len(pw)] \notin whitespace)

ReadableFile(ls) == [status |-> "ok", lines |-> ls, badLine |-> 0]

\* C5: check_common_password is true exactly when some line of the corpus,
\* its leading and trailing whitespace removed, equals the password as
\* typed (case-sensitive, untrimmed): the line "password123" matches
\* "password123" and not "Password123", and a line with surrounding
\* whitespace matches the password equal to its trimmed value.
C5_ExactTrimmedMatch ==
    /\ (pc \notin {"menu", "prompt", "analyse"} /\ corpus.status = "ok"
            /\ corpus.badLine = 0) =>
          (is_common <=>
             \E i \in 1..Len(corpus.lines) : IsTrimmedTo(corpus.lines[i], password))
    /\ check_common_password(password123,
            ReadableFile(<<password123 \o <<"\n">> >>)).found
    /\ ~check_common_password(Password123,
            ReadableFile(<<password123 \o <<"\n">> >>)).found
    /\ check_common_password(password123,
            ReadableFile(<<Password123 \o <<"\n">>,
                           <<" ", "\t">> \o password123 \o <<" ", "\n">> >>)).found

\* The password "a" found through the line " a<TAB>".
C5_Witness ==
    /\ pc = "if_common"
    /\ is_common
    /\ password = <<"a">>
    /\ corpus.lines = << <<" ", "a", "\t", "\n">> >>

Unavailable == corpus.status \in {"missing", "denied"}

\* C6: with the corpus file absent or unreadable check_common_password
\* returns false and prints a warning instead of raising, and the
\* evaluation completes with a verdict that depends on the entropy check
\* and the three mandatory-class checks only, without the common-password
\* reason.  (Whenever a warning was printed the result is false.)
C6_UnavailableCorpus ==
    /\ warning # NoError => ~is_common
    /\ Unavailable =>
          /\ ~is_common
          /\ warning \in {NotFoundWarning, ReadError}
          /\ CommonReason \notin Range(violation_reasons)
          /\ pc = "done" => output \in {PolicyViolationBanner, PassedBanner}
          /\ Evaluated =>
                (policy_violation <=>
                    \/ calculate_entropy(password) < Bits(40)
                    \/ ~Contains(password, UpperLetters)
                    \/ ~Contains(password, DigitChars)
                    \/ ~Contains(password, SpecialChars))

C6_Witness ==
    /\ pc = "done"
    /\ corpus.status = "missing"
    /\ warning = NotFoundWarning
    /\ output = PassedBanner

\* C7 as stated: "P@ssw0rd123" has 12 characters, all four classes are
\* detected (N = 94), its entropy is 12 * log2(94), the entropy check and
\* the three class checks pass, and the verdict is the corpus membership.
C7_Original ==
    (Evaluated /\ password = Scenario2) =>
        /\ Len(password) = 12
        /\ CharSpace(password) = 94
        /\ entropy = 12 * log2[94]
        /\ entropy >= Bits(40) /\ has_upper /\ has_digit /\ has_special
        /\ policy_violation <=> is_common

\* C7 amended: "P@ssw0rd123" has 11 characters, all four classes are
\* detected (N = 94), its entropy is 11 * log2(94) (72.10 bits), the
\* entropy check and the three class checks pass, and the verdict is the
\* corpus membership: the only possible reason is the common-password one.
C7_Scenario2 ==
    (Evaluated /\ password = Scenario2) =>
        /\ Len(password) = 11
        /\ Contains(password, LowerLetters) /\ Contains(password, UpperLetters)
        /\ Contains(password, DigitChars) /\ Contains(password, SpecialChars)
        /\ CharSpace(password) = 94
        /\ entropy = 11 * log2[94]
        /\ Format2f(entropy) = 7210
        /\ entropy >= Bits(40) /\ has_upper /\ has_digit /\ has_special
        /\ policy_violation <=> is_common
        /\ violation_reasons = IF is_common THEN <<CommonReason>> ELSE <<>>

\* The scenario password refused because the corpus lists it.
C7_Witness ==
    /\ pc = "done"
    /\ password = Scenario2
    /\ is_common
    /\ output = PolicyViolationBanner

\* C8: a rating is produced only after a passing verdict; it is Medium
\* exactly when 40 <= entropy < 60 and Strong exactly when entropy >= 60,
\* and Very Weak is never produced by the evaluation flow.
C8_RatingAfterPass ==
    /\ rating # "none" =>
          /\ output = PassedBanner
          /\ ~policy_violation
          /\ rating = "Medium" <=>
                (Bits(40) <= calculate_entropy(password)
                    /\ calculate_entropy(password) < Bits(60))
          /\ rating = "Strong" <=> calculate_entropy(password) >= Bits(60)
    /\ output = PassedBanner => rating \in {"Medium", "Strong"}
    /\ rating # "Very Weak"

C8_Witness ==
    /\ pc = "done"
    /\ output = PassedBanner
    /\ rating = "Medium"

\* The password is made of characters of the four recognized classes.
Recognized(pw) ==
    \A i \in 1..Len(pw) :
        pw[i] \in LowerLetters \cup UpperLetters \cup DigitChars \cup SpecialChars

MandatoryPresent(pw) ==
    /\ Contains(pw, UpperLetters)
    /\ Contains(pw, DigitChars)
    /\ Contains(pw, SpecialChars)

\* C10: for a non-empty password of recognized characters that the corpus
\* does not list, the evaluation passes exactly when the password holds an
\* uppercase letter, a digit and a punctuation character and has at least
\* 7 characters; with the three mandatory classes present (N is 68 or 94)
\* the entropy reason appears exactly when the length is 6 or less.
C10_EntropyIsLengthSeven ==
    (Evaluated /\ password # <<>> /\ Recognized(password) /\ ~is_common) =>
        /\ ~policy_violation <=> (MandatoryPresent(password) /\ Len(password) >= 7)
        /\ MandatoryPresent(password) =>
              /\ CharSpace(password) \in {68, 94}
              /\ (EntropyReason(entropy) \in Range(violation_reasons))
                     <=> Len(password) <= 6

\* Six characters of all four classes: refused for its entropy alone.
C10_Witness ==
    /\ pc = "decide"
    /\ Len(password) = 6
    /\ CharSpace(password) = 94
    /\ violation_reasons = <<EntropyReason(entropy)>>

====
